---------------------------- MODULE Spec2Model ----------------------------
(***************************************************************************)
(* Model of the ingestion pipeline of src/main.py (class QuestionProcessor):*)
(* process_batch running process_single_file over the YAML documents of a  *)
(* directory, against the spreadsheet file and the SQLite table.           *)
(*                                                                         *)
(* Strings that the code transforms (question text, type, year, uuid) are  *)
(* sequences of one-character strings, so that strip(), lower() and the    *)
(* f-string concatenation of generate_uuid are computed, not assumed.      *)
(* Strings that the code only copies (option texts, image urls, answers,   *)
(* tags) are plain strings.                                                *)
(***************************************************************************)
EXTENDS Integers, Sequences, FiniteSets, TLC

(***************************************************************************)
(* Bounds of the model.                                                    *)
(***************************************************************************)
MaxDocs == 2    \* documents in the directory of one process_batch call
MaxBatchDocs == 3   \* the same, for the batches of SpecBatch
MaxRecs == 2    \* records in one document

(***************************************************************************)
(* Program constants.                                                      *)
(***************************************************************************)
max_tags == 4        \* QuestionProcessor.__init__(max_tags=4)
FixedColumns == 14   \* the headers before the Tag_i columns

\* YAML null (Python None) and a key that is not in the mapping.
NULL == "<null>"
ABSENT == "<absent>"

VARIABLES
    excel,               \* the saved spreadsheet file: its data rows (row 2 on)
    db,                  \* the questions table: the set of committed rows
    pc,                  \* position of the program
    nFiles,              \* len(yaml_files) in process_batch
    fileIdx,             \* 1-based position of the for loop of process_batch
    success_count,       \* process_batch's tally
    returns,             \* how each process_single_file call so far ended
    skip_duplicates,     \* the two policy flags
    overwrite_duplicates,
    data,                \* the loaded document: type, year, questions
    ws,                  \* the in-memory worksheet of the current run
    existing_questions,  \* the duplicate index of the current run
    next_row,
    idx,                 \* 1-based position of the record loop
    added_count,
    skipped_count,
    duplicate_questions,
    result,              \* what the current process_single_file call returns
    why,                 \* by which return statement (or raise) the run ended
    excel0,              \* the two stores as they were when the run started
    db0,
    mode,                \* the mode main() dispatches on: "single" or "batch"
    probe,               \* a direct call of one method: arguments and result
    response             \* what the operator typed at the prompt of the run

vars == <<excel, db, pc, nFiles, fileIdx, success_count, returns,
          skip_duplicates, overwrite_duplicates, data, ws,
          existing_questions, next_row, idx, added_count, skipped_count,
          duplicate_questions, result, why, excel0, db0, mode, probe,
          response>>

batchVars == <<nFiles, skip_duplicates, overwrite_duplicates, mode>>
loopVars == <<ws, existing_questions, next_row, idx, added_count,
              skipped_count, duplicate_questions, response>>

(***************************************************************************)
(* str.strip() and str.lower() on sequences of characters.                 *)
(***************************************************************************)
IsSpace(c) == c = " "

LowerChar(c) ==
    CASE c = "Q" -> "q"
      [] c = "M" -> "m"
      [] c = "C" -> "c"
      [] c = "E" -> "e"
      [] c = "Y" -> "y"
      [] c = "N" -> "n"
      [] OTHER -> c

lower(s) == [i \in 1..Len(s) |-> LowerChar(s[i])]

RECURSIVE lstrip(_)
lstrip(s) == IF s # <<>> /\ IsSpace(Head(s)) THEN lstrip(Tail(s)) ELSE s

RECURSIVE rstrip(_)
rstrip(s) ==
    IF s # <<>> /\ IsSpace(s[Len(s)])
    THEN rstrip(SubSeq(s, 1, Len(s) - 1))
    ELSE s

strip(s) == rstrip(lstrip(s))

(***************************************************************************)
(* generate_uuid: the digest of the plain concatenation of the three       *)
(* fields.  The 12-digit md5 prefix is taken to be collision-free, so a    *)
(* digest is represented by the string that was hashed.                    *)
(***************************************************************************)
md5_12(combined) == <<"#">> \o combined

\* Mutant of generate_uuid: the three fields are hashed with a separator.
generate_uuid_separated(question_text, type_val, year) ==
    md5_12(question_text \o <<"|">> \o type_val \o <<"|">> \o year)

\* Mutant of generate_uuid: the year is left out of the hashed string.
generate_uuid_ignores_year(question_text, type_val, year) ==
    md5_12(question_text \o type_val)

generate_uuid(question_text, type_val, year) ==
    md5_12(question_text \o type_val \o year)

(***************************************************************************)
(* The input documents.                                                    *)
(***************************************************************************)
StrOpt(t) == [kind |-> "str", text |-> t, image_url |-> ""]
DictOpt(t, i) == [kind |-> "dict", text |-> t, image_url |-> i]
NullOpt == [kind |-> "null", text |-> "", image_url |-> ""]
NoOpt == [kind |-> "absent", text |-> "", image_url |-> ""]

OptionLabels == <<"A", "B", "C", "D">>

Question(text, image, a, b, c, d, answer, tags) ==
    [question |-> text, image_url |-> image, A |-> a, B |-> b, C |-> c,
     D |-> d, answer |-> answer, tags |-> tags]

WellFormed(text, image, answer, tags) ==
    Question(text, image, StrOpt("a"), DictOpt("", "b.png"), StrOpt("c"),
             DictOpt("d", "d.png"), answer, tags)

qGood == WellFormed(<<"Q">>, "", "A", <<"t1">>)
qSpaced == WellFormed(<<" ", "q", " ">>, "", "B",
                      <<"t1", "t2", "t3", "t4", "t5">>)
qQM == WellFormed(<<"Q", "M">>, "", "C", <<>>)
qImage == WellFormed(<<>>, "q.png", "A", <<>>)
qBlank == WellFormed(<<" ">>, "", "A", <<>>)
qNoD == Question(<<"Q">>, "", StrOpt("a"), StrOpt("b"), StrOpt("c"), NoOpt,
                 "A", <<>>)
qNoAnswer == WellFormed(<<"E">>, "", ABSENT, <<>>)
qEmptyB == Question(<<"E">>, "", StrOpt("a"), NullOpt, StrOpt("c"),
                    StrOpt("d"), "A", <<"t1">>)
qNullAnswer == WellFormed(<<>>, "n.png", NULL, <<>>)
\* 'image_url: null': q.get('image_url', '') is None
qNullImage == WellFormed(<<"Q">>, NULL, "A", <<>>)

RecordPool == {qGood, qSpaced, qQM, qImage, qBlank, qNoD, qNoAnswer,
               qEmptyB, qNullAnswer}

Types == {<<"M", "C", "Q">>, <<"C", "Q">>}
Years == {<<"2", "0", "2", "4">>}

\* The documents of SpecBatch draw their records from these.
BatchPool == {qGood, qSpaced, qNoAnswer}

\* The documents of SpecCore draw their records from these: two texts whose
\* identifiers can coincide, and a record that lacks a key.
CorePool == {qGood, qQM, qNoD}

\* The documents of SpecImage draw their records from these: records without
\* text that carry an image, and a record whose image is null.
ImagePool == {qImage, qNullAnswer, qNullImage}

QuestionLists(pool) == UNION {[1..n -> pool] : n \in 1..MaxRecs}

NoData == [type |-> <<>>, year |-> <<>>, questions |-> <<>>]

\* What is at yaml_path: whether the path exists and, of the mapping the
\* file parses to, whether it has the keys 'type' and 'questions'.
YamlFile(exists, has_type, type_val, year, has_questions, questions) ==
    [exists |-> exists, has_type |-> has_type, type |-> type_val,
     year |-> year, has_questions |-> has_questions, questions |-> questions]

\* A document that has every key load_yaml asks for.
Document(type_val, year, questions) ==
    YamlFile(TRUE, TRUE, type_val, year, TRUE, questions)

\* Mutant of load_yaml: only the key 'questions' is checked, not its list.
load_yaml_accepts_empty_list(file) ==
    IF ~file.exists
    THEN [error |-> "not_found", data |-> NoData]
    ELSE IF ~file.has_type
    THEN [error |-> "no_type", data |-> NoData]
    ELSE IF ~file.has_questions
    THEN [error |-> "no_questions", data |-> NoData]
    ELSE [error |-> "none",
          data |-> [type |-> file.type, year |-> file.year,
                    questions |-> file.questions]]

\* lines 83-99: the exception raised ("none" when the call returns) and the
\* mapping returned.  "not_found" is the FileNotFoundError of line 86,
\* "no_type" and "no_questions" the ValueErrors of lines 93 and 97.
load_yaml(file) ==
    IF ~file.exists
    THEN [error |-> "not_found", data |-> NoData]
    ELSE IF ~file.has_type
    THEN [error |-> "no_type", data |-> NoData]
    ELSE IF ~file.has_questions \/ file.questions = <<>>
    THEN [error |-> "no_questions", data |-> NoData]
    ELSE [error |-> "none",
          data |-> [type |-> file.type, year |-> file.year,
                    questions |-> file.questions]]

\* Files that process_single_file may be handed and that do not load: a
\* path that does not exist, a mapping without 'type', a mapping without
\* 'questions', a mapping whose 'questions' is the empty list.
BadFiles ==
    LET t == <<"M", "C", "Q">>
        y == <<"2", "0", "2", "4">>
    IN  {YamlFile(FALSE, FALSE, <<>>, <<>>, FALSE, <<>>),
         YamlFile(TRUE, FALSE, <<>>, y, TRUE, <<qGood>>),
         YamlFile(TRUE, TRUE, t, y, FALSE, <<>>),
         YamlFile(TRUE, TRUE, t, y, TRUE, <<>>)}

\* The prompt has not been shown.
NoResponse == <<"<none>">>

\* No direct call is being made.
NoProbe == [fn |-> "none"]

(***************************************************************************)
(* Spreadsheet access.  A sheet is the sequence of its data rows: sheet[i] *)
(* is spreadsheet row i + 1, row 1 being the header.                       *)
(***************************************************************************)
max_row(sheet) == Len(sheet) + 1

\* ws.cell(row, column).value is None: the cell was never written
CellIsNone(sheet, row, column) ==
    ~(row - 1 \in 1..Len(sheet) /\ column \in 1..Len(sheet[row - 1]))

get_existing_questions_excel(sheet) ==
    {lower(strip(sheet[r - 1][2])) :
        r \in {x \in 2..max_row(sheet) : sheet[x - 1][2] # <<>>}}

\* Mutant of get_existing_questions_db: the table is not read, the index
\* comes from the spreadsheet alone.
get_existing_questions_db_unread(table) == {}

\* Mutant of get_existing_questions_db: rows without question text are
\* passed over, as they are when the spreadsheet is read.
get_existing_questions_db_skips_empty(table) ==
    {lower(strip(r[2])) : r \in {x \in table : x[2] # <<>>}}

\* lines 133-140
get_existing_questions_db(table) == {lower(strip(r[2])) : r \in table}

\* Mutant of NextRow: writing always starts at the first data row.
NextRowAlwaysTwo(sheet) == 2

\* Mutant of NextRow: the last used row is taken for the next empty one.
NextRowLastUsed(sheet) ==
    IF CellIsNone(sheet, 2, 1) THEN 2 ELSE max_row(sheet)

\* lines 225-228: the next empty row
NextRow(sheet) == IF CellIsNone(sheet, 2, 1) THEN 2 ELSE max_row(sheet) + 1

\* lines 313-315: the cells of row_data written at next_row;
\* ws.cell(row, column, value) assigns the value unless it is None, so a
\* None leaves the cell as it was (None itself in a row never written)
WriteCells(sheet, row, row_data) ==
    IF row - 1 \in 1..Len(sheet)
    THEN [sheet EXCEPT ![row - 1] =
              [c \in 1..Len(row_data) |->
                  IF row_data[c] = NULL THEN sheet[row - 1][c]
                  ELSE row_data[c]]]
    ELSE Append(sheet, row_data)

(***************************************************************************)
(* Per-record helpers of process_single_file.                              *)
(***************************************************************************)
parse_option(option_data) ==
    IF option_data.kind \in {"absent", "null"}
       \/ (option_data.kind = "str" /\ option_data.text = "")
    THEN <<"", "">>
    ELSE IF option_data.kind = "dict"
         THEN <<option_data.text, option_data.image_url>>
         ELSE <<option_data.text, "">>

OptionOf(q, label) ==
    CASE label = "A" -> q.A
      [] label = "B" -> q.B
      [] label = "C" -> q.C
      [] label = "D" -> q.D

\* Mutant of IsDuplicate: the text is looked up without lower().
IsDuplicateCaseSensitive(question_text, existing) == question_text \in existing

\* line 239
IsDuplicate(question_text, existing) == lower(question_text) \in existing

\* line 248
NoTextNoImage(question_text, question_image_url) ==
    question_text = <<>> /\ question_image_url \in {"", NULL}

\* Mutant of missing_fields: 'answer' is not among the required fields.
missing_fields_options_only(q) ==
    {f \in {"A", "B", "C", "D"} : OptionOf(q, f).kind = "absent"}

\* lines 253-254
missing_fields(q) ==
    {f \in {"A", "B", "C", "D"} : OptionOf(q, f).kind = "absent"}
    \cup (IF q.answer = ABSENT THEN {"answer"} ELSE {})

\* lines 280-289: the options that have neither text nor image
EmptyOptions(q) ==
    {i \in 1..4 : parse_option(OptionOf(q, OptionLabels[i]))[1] = ""
                  /\ parse_option(OptionOf(q, OptionLabels[i]))[2] = ""}

\* Mutant of TagSlots: of a list that is too long the last max_tags are kept.
TagSlotsKeepsLast(tags) ==
    LET kept == IF Len(tags) > max_tags
                THEN SubSeq(tags, Len(tags) - max_tags + 1, Len(tags))
                ELSE tags
    IN  [i \in 1..max_tags |-> IF i <= Len(kept) THEN kept[i] ELSE ""]

\* lines 268-271 and 310-311
TagSlots(tags) ==
    LET kept == IF Len(tags) > max_tags THEN SubSeq(tags, 1, max_tags)
                ELSE tags
    IN  [i \in 1..max_tags |-> IF i <= Len(kept) THEN kept[i] ELSE ""]

\* lines 260-311
RowData(q, question_text, type_val, year) ==
    <<generate_uuid(question_text, type_val, year),
      question_text,
      q.image_url,
      parse_option(q.A)[1], parse_option(q.A)[2],
      parse_option(q.B)[1], parse_option(q.B)[2],
      parse_option(q.C)[1], parse_option(q.C)[2],
      parse_option(q.D)[1], parse_option(q.D)[2],
      IF q.answer = ABSENT THEN "" ELSE q.answer,
      type_val,
      year>> \o TagSlots(q.tags)

\* The constraints of the questions table that raise sqlite3.IntegrityError:
\* uuid TEXT PRIMARY KEY, answer TEXT NOT NULL.
IntegrityError(table, row_data) ==
    \/ \E r \in table : r[1] = row_data[1]
    \/ row_data[12] = NULL

\* Mutant of insert_question_db: a row whose uuid is in the table replaces
\* the row that has it (INSERT OR REPLACE).
insert_question_db_replaces(table, row_data) ==
    IF row_data[12] = NULL
    THEN [table |-> table, ok |-> FALSE]
    ELSE [table |-> {r \in table : r[1] # row_data[1]} \cup {row_data},
          ok |-> TRUE]

\* lines 175-186: the table after the call, and the value returned
insert_question_db(table, row_data) ==
    IF IntegrityError(table, row_data)
    THEN [table |-> table, ok |-> FALSE]
    ELSE [table |-> table \cup {row_data}, ok |-> TRUE]

\* Mutant of IndexAfterInsert: the index is not extended during the run.
IndexAfterInsertUnchanged(existing, question_text, ok) == existing

\* lines 318-321: the index after the insert of a record returned ok
IndexAfterInsert(existing, question_text, ok) ==
    IF ok THEN existing \cup {lower(question_text)} ELSE existing

\* Whether the record at the loop position reaches the insert (line 318).
ReachesInsert(q, existing) ==
    LET question_text == strip(q.question)
    IN  /\ ~IsDuplicate(question_text, existing)
        /\ ~NoTextNoImage(question_text, q.image_url)
        /\ missing_fields(q) = {}

(***************************************************************************)
(* The state after construction and setup: a header-only spreadsheet, an   *)
(* empty questions table, process_batch not yet called.                    *)
(***************************************************************************)
Constructed ==
    /\ excel = <<>>
    /\ db = {}
    /\ pc = "start"
    /\ nFiles = 0
    /\ fileIdx = 1
    /\ success_count = 0
    /\ returns = <<>>
    /\ skip_duplicates = FALSE
    /\ overwrite_duplicates = FALSE
    /\ data = NoData
    /\ ws = <<>>
    /\ existing_questions = {}
    /\ next_row = 2
    /\ idx = 1
    /\ added_count = 0
    /\ skipped_count = 0
    /\ duplicate_questions = <<>>
    /\ result = FALSE
    /\ why = "none"
    /\ excel0 = <<>>
    /\ db0 = {}
    /\ mode = "none"
    /\ response = NoResponse

Init == Constructed /\ probe = NoProbe

ResetLocals ==
    /\ data' = NoData
    /\ ws' = <<>>
    /\ existing_questions' = {}
    /\ next_row' = 2
    /\ idx' = 1
    /\ added_count' = 0
    /\ skipped_count' = 0
    /\ duplicate_questions' = <<>>
    /\ response' = NoResponse
    /\ result' = FALSE
    /\ why' = "none"
    /\ excel0' = excel
    /\ db0' = db

\* lines 365-375: the directory holds between one and max documents
StartBatchOf(max) ==
    /\ pc = "start"
    /\ mode' = "batch"
    /\ \E n \in 1..max : nFiles' = n
    /\ skip_duplicates' \in BOOLEAN
    /\ overwrite_duplicates' \in BOOLEAN
    /\ fileIdx' = 1
    /\ success_count' = 0
    /\ pc' = "call"
    /\ UNCHANGED <<excel, db, returns, data, loopVars, result, why, excel0,
                   db0, probe>>

StartBatch == StartBatchOf(MaxDocs)

StartLargeBatch == StartBatchOf(MaxBatchDocs)

\* lines 559-560: main() calls process_single_file on args.input
StartSingle ==
    /\ pc = "start"
    /\ mode' = "single"
    /\ skip_duplicates' \in BOOLEAN
    /\ overwrite_duplicates' \in BOOLEAN
    /\ pc' = "call"
    /\ UNCHANGED <<excel, db, nFiles, fileIdx, success_count, returns, data,
                   loopVars, result, why, excel0, db0, probe>>

\* A process_single_file call that ends at one of its return statements.
Returns(value, reason) ==
    /\ result' = value
    /\ why' = reason
    /\ pc' = "returned"

\* Mutant of LoadYamlFails: the call returns True although load_yaml raised.
LoadYamlFailsReturnsTrue ==
    /\ pc = "call"
    /\ \E file \in BadFiles :
           /\ load_yaml(file).error # "none"
           /\ Returns(TRUE, load_yaml(file).error)
    /\ excel0' = excel
    /\ db0' = db
    /\ UNCHANGED <<excel, db, fileIdx, success_count, returns, batchVars, probe,
                   data, loopVars>>

\* lines 194-199: load_yaml raises (lines 85-97) and the call returns False
LoadYamlFails ==
    /\ pc = "call"
    /\ \E file \in BadFiles :
           /\ load_yaml(file).error # "none"
           /\ Returns(FALSE, load_yaml(file).error)
    /\ excel0' = excel
    /\ db0' = db
    /\ UNCHANGED <<excel, db, fileIdx, success_count, returns, batchVars, probe,
                   data, loopVars>>

\* lines 201-207: load_excel raises and the call returns False
LoadExcelFails ==
    /\ pc = "call"
    /\ Returns(FALSE, "excel")
    /\ excel0' = excel
    /\ db0' = db
    /\ UNCHANGED <<excel, db, fileIdx, success_count, returns, batchVars, probe,
                   data, loopVars>>

\* line 211: get_existing_questions_db raises; nothing catches it
IndexReadRaises ==
    /\ pc = "call"
    /\ why' = "db_error"
    /\ pc' = "raised"
    /\ excel0' = excel
    /\ db0' = db
    /\ UNCHANGED <<excel, db, fileIdx, success_count, returns, batchVars, probe,
                   data, loopVars, result>>

\* lines 194-233: the document and the workbook load, the index is built
LoadDocumentFrom(pool) ==
    /\ pc = "call"
    /\ \E t \in Types, y \in Years, qs \in QuestionLists(pool) :
           LET loaded == load_yaml(Document(t, y, qs))
           IN  /\ loaded.error = "none"
               /\ data' = loaded.data
    /\ ws' = excel
    /\ existing_questions' =
           get_existing_questions_excel(excel)
               \cup get_existing_questions_db(db)
    /\ next_row' = NextRow(excel)
    /\ idx' = 1
    /\ added_count' = 0
    /\ skipped_count' = 0
    /\ duplicate_questions' = <<>>
    /\ response' = NoResponse
    /\ pc' = "loop"
    /\ excel0' = excel
    /\ db0' = db
    /\ UNCHANGED <<excel, db, fileIdx, success_count, returns, batchVars, probe,
                   result, why>>

LoadDocument == LoadDocumentFrom(RecordPool)

LoadBatchDocument == LoadDocumentFrom(BatchPool)

LoadCoreDocument == LoadDocumentFrom(CorePool)

LoadImageDocument == LoadDocumentFrom(ImagePool)

\* line 327: where the run goes once the record loop is over
AfterLoop(dups) ==
    IF dups # <<>> /\ ~skip_duplicates /\ ~overwrite_duplicates
    THEN "prompt"
    ELSE "save"

\* Mutant of LoopExit: the loop is left as soon as a duplicate was found.
LoopExitOnDuplicate(i, dups) ==
    IF i > Len(data.questions) \/ dups # <<>>
    THEN AfterLoop(dups)
    ELSE "loop"

\* line 235: the for loop goes on while records are left
LoopExit(i, dups) ==
    IF i > Len(data.questions) THEN AfterLoop(dups) ELSE "loop"

\* Mutant of ProcessRecord: a record is a duplicate when its identifier is
\* in the table or in the worksheet.
ProcessRecordDedupById ==
    /\ pc = "loop"
    /\ idx <= Len(data.questions)
    /\ LET q == data.questions[idx]
           question_text == strip(q.question)
           row_data == RowData(q, question_text, data.type, data.year)
           ins == insert_question_db(db, row_data)
       IN  IF \/ \E r \in db : r[1] = row_data[1]
              \/ \E i \in 1..Len(ws) : ws[i][1] = row_data[1]
           THEN /\ duplicate_questions' =
                       Append(duplicate_questions, <<idx, question_text>>)
                /\ skipped_count' = skipped_count + 1
                /\ UNCHANGED <<ws, db, next_row, added_count,
                               existing_questions>>
           ELSE IF NoTextNoImage(question_text, q.image_url)
                   \/ missing_fields(q) # {}
           THEN /\ skipped_count' = skipped_count + 1
                /\ UNCHANGED <<ws, db, next_row, added_count,
                               existing_questions, duplicate_questions>>
           ELSE /\ ws' = WriteCells(ws, next_row, row_data)
                /\ db' = ins.table
                /\ next_row' = IF ins.ok THEN next_row + 1 ELSE next_row
                /\ added_count' =
                       IF ins.ok THEN added_count + 1 ELSE added_count
                /\ existing_questions' =
                       IndexAfterInsert(existing_questions, question_text,
                                        ins.ok)
                /\ skipped_count' =
                       skipped_count + Cardinality(EmptyOptions(q))
                           + (IF ins.ok THEN 0 ELSE 1)
                /\ UNCHANGED duplicate_questions
    /\ idx' = idx + 1
    /\ pc' = LoopExit(idx', duplicate_questions')
    /\ UNCHANGED <<excel, fileIdx, success_count, returns, batchVars, probe,
                   data, result, why, excel0, db0, response>>

\* Mutant of ProcessRecord: the structure of the record is checked before
\* the duplicate index is consulted.
ProcessRecordValidatesFirst ==
    /\ pc = "loop"
    /\ idx <= Len(data.questions)
    /\ LET q == data.questions[idx]
           question_text == strip(q.question)
           row_data == RowData(q, question_text, data.type, data.year)
           ins == insert_question_db(db, row_data)
       IN  IF NoTextNoImage(question_text, q.image_url)
              \/ missing_fields(q) # {}
           THEN /\ skipped_count' = skipped_count + 1
                /\ UNCHANGED <<ws, db, next_row, added_count,
                               existing_questions, duplicate_questions>>
           ELSE IF IsDuplicate(question_text, existing_questions)
           THEN /\ duplicate_questions' =
                       Append(duplicate_questions, <<idx, question_text>>)
                /\ skipped_count' = skipped_count + 1
                /\ UNCHANGED <<ws, db, next_row, added_count,
                               existing_questions>>
           ELSE /\ ws' = WriteCells(ws, next_row, row_data)
                /\ db' = ins.table
                /\ next_row' = IF ins.ok THEN next_row + 1 ELSE next_row
                /\ added_count' =
                       IF ins.ok THEN added_count + 1 ELSE added_count
                /\ existing_questions' =
                       IndexAfterInsert(existing_questions, question_text,
                                        ins.ok)
                /\ skipped_count' =
                       skipped_count + Cardinality(EmptyOptions(q))
                           + (IF ins.ok THEN 0 ELSE 1)
                /\ UNCHANGED duplicate_questions
    /\ idx' = idx + 1
    /\ pc' = LoopExit(idx', duplicate_questions')
    /\ UNCHANGED <<excel, fileIdx, success_count, returns, batchVars, probe,
                   data, result, why, excel0, db0, response>>

\* lines 235-324: one iteration of the record loop
ProcessRecord ==
    /\ pc = "loop"
    /\ idx <= Len(data.questions)
    /\ LET q == data.questions[idx]
           question_text == strip(q.question)
           row_data == RowData(q, question_text, data.type, data.year)
           ins == insert_question_db(db, row_data)
       IN  IF IsDuplicate(question_text, existing_questions)
           THEN /\ duplicate_questions' =
                       Append(duplicate_questions, <<idx, question_text>>)
                /\ skipped_count' = skipped_count + 1
                /\ UNCHANGED <<ws, db, next_row, added_count,
                               existing_questions>>
           ELSE IF NoTextNoImage(question_text, q.image_url)
                   \/ missing_fields(q) # {}
           THEN /\ skipped_count' = skipped_count + 1
                /\ UNCHANGED <<ws, db, next_row, added_count,
                               existing_questions, duplicate_questions>>
           ELSE /\ ws' = WriteCells(ws, next_row, row_data)
                /\ db' = ins.table
                /\ next_row' = IF ins.ok THEN next_row + 1 ELSE next_row
                /\ added_count' =
                       IF ins.ok THEN added_count + 1 ELSE added_count
                /\ existing_questions' =
                       IndexAfterInsert(existing_questions, question_text,
                                        ins.ok)
                /\ skipped_count' =
                       skipped_count + Cardinality(EmptyOptions(q))
                           + (IF ins.ok THEN 0 ELSE 1)
                /\ UNCHANGED duplicate_questions
    /\ idx' = idx + 1
    /\ pc' = LoopExit(idx', duplicate_questions')
    /\ UNCHANGED <<excel, fileIdx, success_count, returns, batchVars, probe, data,
                   result, why, excel0, db0, response>>

\* Mutant of InsertRaises: the insert is attempted before the cells of the
\* row are written.
InsertRaisesBeforeWrite ==
    /\ pc = "loop"
    /\ idx <= Len(data.questions)
    /\ ReachesInsert(data.questions[idx], existing_questions)
    /\ skipped_count' =
           skipped_count + Cardinality(EmptyOptions(data.questions[idx]))
    /\ why' = "db_error"
    /\ pc' = "raised"
    /\ UNCHANGED <<excel, db, fileIdx, success_count, returns, batchVars, probe,
                   data, ws, existing_questions, next_row, idx, added_count,
                   duplicate_questions, result, excel0, db0, response>>

\* line 318: the insert raises an sqlite3 error that is not an
\* IntegrityError (lines 175-186 catch nothing else); the cells of the row
\* were written to the worksheet before
InsertRaises ==
    /\ pc = "loop"
    /\ idx <= Len(data.questions)
    /\ ReachesInsert(data.questions[idx], existing_questions)
    /\ LET q == data.questions[idx]
           question_text == strip(q.question)
       IN  /\ ws' = WriteCells(ws, next_row,
                        RowData(q, question_text, data.type, data.year))
           /\ skipped_count' =
                  skipped_count + Cardinality(EmptyOptions(q))
    /\ why' = "db_error"
    /\ pc' = "raised"
    /\ UNCHANGED <<excel, db, fileIdx, success_count, returns, batchVars, probe,
                   data, existing_questions, next_row, idx, added_count,
                   duplicate_questions, result, excel0, db0, response>>

\* What the operator may type at the prompt.
Responses == {<<"y">>, <<" ", "Y">>, <<"n">>, <<>>, <<"y", "e", "s">>}

\* Mutant of Prompt: every answer that begins with y or Y is an acceptance.
PromptAcceptsPrefix ==
    /\ pc = "prompt"
    /\ \E typed \in Responses :
           /\ response' = typed
           /\ IF lower(strip(typed)) = <<>>
                 \/ Head(lower(strip(typed))) # "y"
              THEN Returns(FALSE, "declined")
              ELSE /\ pc' = "save"
                   /\ UNCHANGED <<result, why>>
    /\ UNCHANGED <<excel, db, fileIdx, success_count, returns, batchVars, probe,
                   data, ws, existing_questions, next_row, idx, added_count,
                   skipped_count, duplicate_questions, excel0, db0>>

\* lines 336-339
Prompt ==
    /\ pc = "prompt"
    /\ \E typed \in Responses :
           /\ response' = typed
           /\ IF lower(strip(typed)) # <<"y">>
              THEN Returns(FALSE, "declined")
              ELSE /\ pc' = "save"
                   /\ UNCHANGED <<result, why>>
    /\ UNCHANGED <<excel, db, fileIdx, success_count, returns, batchVars, probe,
                   data, ws, existing_questions, next_row, idx, added_count,
                   skipped_count, duplicate_questions, excel0, db0>>

\* lines 342-351
SaveExcel ==
    /\ pc = "save"
    /\ excel' = ws
    /\ Returns(TRUE, "saved")
    /\ UNCHANGED <<db, fileIdx, success_count, returns, batchVars, probe, data,
                   loopVars, excel0, db0>>

\* lines 352-354: wb.save raises
SaveExcelFails ==
    /\ pc = "save"
    /\ Returns(FALSE, "save_error")
    /\ UNCHANGED <<excel, db, fileIdx, success_count, returns, batchVars, probe,
                   data, loopVars, excel0, db0>>

\* Mutant of BatchNext: the loop of process_batch ends at the first document
\* whose call returned False.
BatchNextStopsOnFailure ==
    /\ pc = "returned"
    /\ mode = "batch"
    /\ success_count' = IF result THEN success_count + 1 ELSE success_count
    /\ returns' = Append(returns, [value |-> result, why |-> why])
    /\ fileIdx' = fileIdx + 1
    /\ pc' = IF fileIdx' > nFiles \/ ~result THEN "batch_done" ELSE "call"
    /\ ResetLocals
    /\ UNCHANGED <<excel, db, batchVars, probe>>

\* lines 376-378: the call has returned; tally, then the next document
BatchNext ==
    /\ pc = "returned"
    /\ mode = "batch"
    /\ success_count' = IF result THEN success_count + 1 ELSE success_count
    /\ returns' = Append(returns, [value |-> result, why |-> why])
    /\ fileIdx' = fileIdx + 1
    /\ pc' = IF fileIdx' > nFiles THEN "batch_done" ELSE "call"
    /\ ResetLocals
    /\ UNCHANGED <<excel, db, batchVars, probe>>

\* line 560: process_single_file has returned to main(), which does
\* nothing with the value
SingleReturns ==
    /\ pc = "returned"
    /\ mode = "single"
    /\ returns' = Append(returns, [value |-> result, why |-> why])
    /\ pc' = "main_done"
    /\ UNCHANGED <<excel, db, fileIdx, success_count, batchVars, probe, data,
                   loopVars, result, why, excel0, db0>>

\* lines 499-566: main() falls off its end and the interpreter exits with
\* status 0; no statement of the file sets another status
MainReturns ==
    /\ pc \in {"main_done", "batch_done"}
    /\ pc' = "exit_0"
    /\ UNCHANGED <<excel, db, fileIdx, success_count, returns, batchVars, probe,
                   data, loopVars, result, why, excel0, db0>>

\* An exception that nothing catches leaves main(): traceback, status 1.
UncaughtException ==
    /\ pc = "raised"
    /\ pc' = "exit_1"
    /\ UNCHANGED <<excel, db, fileIdx, success_count, returns, batchVars, probe,
                   data, loopVars, result, why, excel0, db0>>

Next ==
    \/ StartBatch
    \/ LoadYamlFails
    \/ LoadExcelFails
    \/ IndexReadRaises
    \/ LoadDocument
    \/ ProcessRecord
    \/ InsertRaises
    \/ Prompt
    \/ SaveExcel
    \/ SaveExcelFails
    \/ BatchNext

Spec == Init /\ [][Next]_vars

\* Batches of up to MaxBatchDocs documents over the records of BatchPool.
NextBatch ==
    \/ StartLargeBatch
    \/ LoadYamlFails
    \/ LoadExcelFails
    \/ IndexReadRaises
    \/ LoadBatchDocument
    \/ ProcessRecord
    \/ InsertRaises
    \/ Prompt
    \/ SaveExcel
    \/ SaveExcelFails
    \/ BatchNext

SpecBatch == Init /\ [][NextBatch]_vars

\* Batches of up to MaxDocs documents over the records of CorePool.
NextCore ==
    \/ StartBatch
    \/ LoadYamlFails
    \/ LoadExcelFails
    \/ IndexReadRaises
    \/ LoadCoreDocument
    \/ ProcessRecord
    \/ InsertRaises
    \/ Prompt
    \/ SaveExcel
    \/ SaveExcelFails
    \/ BatchNext

SpecCore == Init /\ [][NextCore]_vars

\* Batches of up to MaxDocs documents over the records of ImagePool.
NextImage ==
    \/ StartBatch
    \/ LoadYamlFails
    \/ LoadExcelFails
    \/ IndexReadRaises
    \/ LoadImageDocument
    \/ ProcessRecord
    \/ InsertRaises
    \/ Prompt
    \/ SaveExcel
    \/ SaveExcelFails
    \/ BatchNext

SpecImage == Init /\ [][NextImage]_vars

\* main() in either mode, up to the exit of the interpreter.
NextMain ==
    \/ StartSingle
    \/ StartBatch
    \/ LoadYamlFails
    \/ LoadExcelFails
    \/ IndexReadRaises
    \/ LoadBatchDocument
    \/ ProcessRecord
    \/ InsertRaises
    \/ Prompt
    \/ SaveExcel
    \/ SaveExcelFails
    \/ BatchNext
    \/ SingleReturns
    \/ MainReturns
    \/ UncaughtException

SpecMain == Init /\ [][NextMain]_vars

(***************************************************************************)
(* Direct calls of the two methods that compute a value from their         *)
(* arguments alone, load_yaml and generate_uuid: the arguments are drawn   *)
(* when the state is set up, the call puts the result next to them.        *)
(***************************************************************************)
ProbeTexts == {<<>>, <<"Q">>, <<"Q", "M">>, <<"M">>}
ProbeTypes == Types \cup {<<>>}
ProbeYears == Years \cup {<<>>, <<"2">>}

UuidArgs == ProbeTexts \X ProbeTypes \X ProbeYears

ProbeFiles ==
    {YamlFile(e, ht, t, y, hq, qs) :
        e \in BOOLEAN, ht \in BOOLEAN, t \in Types, y \in Years,
        hq \in BOOLEAN, qs \in {<<>>} \cup QuestionLists(BatchPool)}

InitPure ==
    /\ Constructed
    /\ \/ \E a \in UuidArgs, b \in UuidArgs :
              probe = [fn |-> "generate_uuid", args |-> <<a, b>>,
                       done |-> FALSE, out |-> <<>>]
       \/ \E file \in ProbeFiles :
              probe = [fn |-> "load_yaml", args |-> file,
                       done |-> FALSE,
                       out |-> [error |-> "pending", data |-> NoData]]

\* lines 77-81, called on each of the two argument triples
ApplyGenerateUuid ==
    /\ probe.fn = "generate_uuid"
    /\ ~probe.done
    /\ probe' = [probe EXCEPT
                    !.done = TRUE,
                    !.out = <<generate_uuid(probe.args[1][1],
                                            probe.args[1][2],
                                            probe.args[1][3]),
                              generate_uuid(probe.args[2][1],
                                            probe.args[2][2],
                                            probe.args[2][3])>>]
    /\ UNCHANGED <<excel, db, pc, fileIdx, success_count, returns, batchVars,
                   data, loopVars, result, why, excel0, db0>>

\* lines 83-99, called on the file
ApplyLoadYaml ==
    /\ probe.fn = "load_yaml"
    /\ ~probe.done
    /\ probe' = [probe EXCEPT !.done = TRUE, !.out = load_yaml(probe.args)]
    /\ UNCHANGED <<excel, db, pc, fileIdx, success_count, returns, batchVars,
                   data, loopVars, result, why, excel0, db0>>

NextPure ==
    \/ ApplyGenerateUuid
    \/ ApplyLoadYaml

SpecPure == InitPure /\ [][NextPure]_vars

TypeOK ==
    /\ pc \in {"start", "call", "loop", "prompt", "save", "returned",
               "raised", "batch_done", "main_done", "exit_0", "exit_1"}
    /\ mode \in {"none", "single", "batch"}
    /\ fileIdx \in 1..(nFiles + 1)
    /\ mode = "batch" => Len(returns) = fileIdx - 1
    /\ \A r \in db \cup {ws[i] : i \in 1..Len(ws)} :
           Len(r) = FixedColumns + max_tags

(***************************************************************************)
(* Vocabulary of the properties.                                           *)
(***************************************************************************)
Rows(sheet) == {sheet[i] : i \in 1..Len(sheet)}

Ids(rows) == {r[1] : r \in rows}

\* The row of a record: its question text, type and year columns.
HasRowFor(rows, text, type_val, year) ==
    \E r \in rows : r[2] = text /\ r[13] = type_val /\ r[14] = year

\* An earlier run accepted the record (text, type, year) into both stores.
AcceptedBefore(q) ==
    /\ HasRowFor(db0, strip(q.question), data.type, data.year)
    /\ HasRowFor(Rows(excel0), strip(q.question), data.type, data.year)

\* The step is one iteration of the record loop.
RecordStep == pc = "loop" /\ idx' = idx + 1

\* The record loop of the current run is over.
LoopDone ==
    \/ pc \in {"prompt", "save"}
    \/ pc = "returned" /\ why \in {"declined", "saved", "save_error"}

OptionEmpty(o) ==
    \/ o.kind = "null"
    \/ o.kind = "str" /\ o.text = ""
    \/ o.kind = "dict" /\ o.text = "" /\ o.image_url = ""

LacksKey(q) ==
    \/ \E o \in {q.A, q.B, q.C, q.D} : o.kind = "absent"
    \/ q.answer = ABSENT

HasEmptyOption(q) ==
    /\ ~LacksKey(q)
    /\ \E o \in {q.A, q.B, q.C, q.D} : OptionEmpty(o)

\* A record that passes every check of the validator and that the table
\* accepts as far as its NOT NULL columns go.
WellFormedRecord(q) ==
    /\ ~LacksKey(q)
    /\ ~HasEmptyOption(q)
    /\ (strip(q.question) # <<>> \/ q.image_url # "")
    /\ q.answer # NULL

Normalized(text) == lower(strip(text))

UniqueTexts(sheet) ==
    \A i, j \in 1..Len(sheet) :
        i # j => Normalized(sheet[i][2]) # Normalized(sheet[j][2])

UniqueTextsDb(table) ==
    \A r1, r2 \in table : r1 # r2 => Normalized(r1[2]) # Normalized(r2[2])

NoWriteStep ==
    /\ ws' = ws
    /\ db' = db
    /\ excel' = excel
    /\ added_count' = added_count

(***************************************************************************)
(* C1.  Re-ingestion is idempotent on the stores: a record whose (text,    *)
(* type, year) an earlier run accepted into both stores is classified      *)
(* duplicate when a later run meets it: it is counted as skipped, not as   *)
(* added, it joins the duplicate list, and nothing is written to the       *)
(* worksheet or the table.  A document of one well-formed question that is *)
(* new to both stores ends its record loop with 1 added and 0 duplicates;  *)
(* ingested again, with 0 added and 1 duplicate.                           *)
(***************************************************************************)
C1_EndToEnd ==
    (LoopDone /\ Len(data.questions) = 1
        /\ WellFormedRecord(data.questions[1]))
    => LET q == data.questions[1]
       IN  /\ AcceptedBefore(q)
              => /\ added_count = 0
                 /\ skipped_count = 1
                 /\ Len(duplicate_questions) = 1
                 /\ db = db0
           /\ (/\ Normalized(q.question) \notin
                      {Normalized(r[2]) : r \in db0 \cup Rows(excel0)}
               /\ generate_uuid(strip(q.question), data.type, data.year)
                      \notin Ids(db0))
              => /\ added_count = 1
                 /\ skipped_count = 0
                 /\ duplicate_questions = <<>>

C1_ReingestionIsDuplicate ==
    /\ [][(RecordStep /\ AcceptedBefore(data.questions[idx]))
            => /\ NoWriteStep
               /\ skipped_count' = skipped_count + 1
               /\ duplicate_questions' =
                      Append(duplicate_questions,
                             <<idx, strip(data.questions[idx].question)>>)]_vars
    /\ []C1_EndToEnd

\* The second run over a one-question document has ended its loop with the
\* question found duplicate.
C1_Witness ==
    /\ LoopDone
    /\ fileIdx = 2
    /\ Len(data.questions) = 1
    /\ WellFormedRecord(data.questions[1])
    /\ AcceptedBefore(data.questions[1])
    /\ returns[1].value
    /\ added_count = 0
    /\ Len(duplicate_questions) = 1

(***************************************************************************)
(* C2.  When the operator declines at the duplicate prompt the run ends    *)
(* with no persisted change: the saved spreadsheet and the table hold      *)
(* exactly the rows they held when the run started.                        *)
(***************************************************************************)
C2_DeclineChangesNothing ==
    (pc = "returned" /\ why = "declined") => (excel = excel0 /\ db = db0)

(***************************************************************************)
(* C3.  While the run waits for the operator's decision on the duplicates, *)
(* no mutation of either store has been made durable: no insert has been   *)
(* committed to the table and the spreadsheet has not been saved.          *)
(***************************************************************************)
C3_DecisionBeforeMutation ==
    pc = "prompt" => (db = db0 /\ excel = excel0)

(***************************************************************************)
(* C4.  A record one of whose options A-D is present but has neither text  *)
(* nor image is malformed as a whole: the iteration that handles it writes *)
(* no cell, inserts no row and does not count it as added.                 *)
(***************************************************************************)
C4_EmptyOptionWritesNothing ==
    [][(RecordStep /\ HasEmptyOption(data.questions[idx]))
          => NoWriteStep]_vars

(***************************************************************************)
(* C5.  The two stores stay in correspondence: when every run so far has   *)
(* returned success, the ids of the saved spreadsheet's rows are the ids   *)
(* of the table's rows.                                                    *)
(***************************************************************************)
C5_StoresCorrespond ==
    (/\ pc = "returned"
     /\ result
     /\ \A i \in 1..Len(returns) : returns[i].value)
    => Ids(Rows(excel)) = Ids(db)

(***************************************************************************)
(* C6.  At the end of a run that returns success no two rows of the        *)
(* spreadsheet and no two rows of the table have the same normalized       *)
(* question text, provided this held for both stores when the run started. *)
(***************************************************************************)
C6_NormalizedTextUnique ==
    (/\ pc = "returned"
     /\ result
     /\ UniqueTexts(excel0)
     /\ UniqueTextsDb(db0))
    => (UniqueTexts(excel) /\ UniqueTextsDb(db))

(***************************************************************************)
(* C7.  A record that lacks one of the keys A, B, C, D, answer is skipped: *)
(* the iteration that handles it adds one to skipped_count, does not count *)
(* it as added, writes no cell and inserts no row, whatever the document's *)
(* other records are; so no row of either store ever comes from it.        *)
(***************************************************************************)
C7_MissingKeySkipped ==
    [][(RecordStep /\ LacksKey(data.questions[idx]))
          => /\ NoWriteStep
             /\ skipped_count' = skipped_count + 1
             /\ next_row' = next_row
             /\ existing_questions' = existing_questions]_vars

\* A record that lacks a key and is no duplicate was skipped as malformed,
\* after another record of the document was accepted.
C7_Witness ==
    /\ LoopDone
    /\ Len(data.questions) = 2
    /\ LacksKey(data.questions[2])
    /\ added_count = 1
    /\ skipped_count = 1
    /\ duplicate_questions = <<>>

(***************************************************************************)
(* C8.  process_batch processes every document exactly once, in order: a   *)
(* call that returns False (document not found, type missing, no           *)
(* questions, workbook not loaded, prompt declined, save failed) does not  *)
(* end the loop, and the tally is the number of calls that returned True.  *)
(* Of three documents whose second lacks the type field, the batch ends    *)
(* with a tally of 2 when the other two succeed.                           *)
(***************************************************************************)
Successes == {i \in 1..Len(returns) : returns[i].value}

C8_BatchIndependent ==
    /\ Len(returns) = fileIdx - 1
    /\ success_count = Cardinality(Successes)
    /\ pc = "returned" => fileIdx <= nFiles
    /\ pc = "batch_done" => Len(returns) = nFiles
    /\ (/\ pc = "batch_done"
        /\ nFiles = 3
        /\ returns[1].value
        /\ returns[2].why = "no_type"
        /\ returns[3].value)
       => success_count = 2

\* Three documents, the second without type, the third processed: 2 of 3.
C8_Witness ==
    /\ pc = "batch_done"
    /\ nFiles = 3
    /\ returns[1].value
    /\ returns[2].why = "no_type"
    /\ returns[3].value
    /\ success_count = 2

(***************************************************************************)
(* C9.  An error of either store while a document is processed aborts only *)
(* that document: the call returns False and process_batch goes on.        *)
(***************************************************************************)
C9_StoreErrorAbortsOnlyDocument ==
    why \in {"db_error", "save_error"} => (pc = "returned" /\ ~result)

(***************************************************************************)
(* C10.  Every record gets exactly one outcome, so that when the record    *)
(* loop is over added_count + skipped_count is the number of records of    *)
(* the document.                                                           *)
(***************************************************************************)
C10_OneOutcomePerRecord ==
    LoopDone => added_count + skipped_count = Len(data.questions)

(***************************************************************************)
(* C11.  load_yaml fails with the not-found error when the path does not   *)
(* exist; when it exists, with a schema error when the mapping has no      *)
(* 'type' key, has no 'questions' key, or has an empty 'questions' list;   *)
(* in every other case it returns the parsed mapping.  The call writes to  *)
(* neither store.                                                          *)
(***************************************************************************)
SchemaErrors == {"no_type", "no_questions"}

C11_LoadYamlOutcome ==
    (probe.fn = "load_yaml" /\ probe.done)
    => LET file == probe.args
           out == probe.out
           incomplete == \/ ~file.has_type
                         \/ ~file.has_questions
                         \/ Len(file.questions) = 0
       IN  /\ ~file.exists => out.error = "not_found"
           /\ (file.exists /\ incomplete) => out.error \in SchemaErrors
           /\ (file.exists /\ ~incomplete)
              => /\ out.error = "none"
                 /\ out.data.type = file.type
                 /\ out.data.year = file.year
                 /\ out.data.questions = file.questions
           /\ excel = <<>>
           /\ db = {}

\* load_yaml was called on a mapping that has both keys and an empty list.
C11_Witness ==
    /\ probe.fn = "load_yaml"
    /\ probe.done
    /\ probe.args.exists
    /\ probe.args.has_type
    /\ probe.args.has_questions
    /\ probe.args.questions = <<>>
    /\ probe.out.error = "no_questions"

(***************************************************************************)
(* C12.  generate_uuid is a function of (question_text, type, year): two   *)
(* calls with the same three arguments return the same identifier, and two *)
(* calls whose arguments differ in exactly one of the three positions      *)
(* return different identifiers (the digest being collision-free).         *)
(***************************************************************************)
DifferingPositions(a, b) == {i \in 1..3 : a[i] # b[i]}

C12_UuidPerArgument ==
    (probe.fn = "generate_uuid" /\ probe.done)
    => LET a == probe.args[1]
           b == probe.args[2]
       IN  /\ a = b => probe.out[1] = probe.out[2]
           /\ Cardinality(DifferingPositions(a, b)) = 1
              => probe.out[1] # probe.out[2]

\* Two calls that differ in the year alone returned different identifiers.
C12_Witness ==
    /\ probe.fn = "generate_uuid"
    /\ probe.done
    /\ DifferingPositions(probe.args[1], probe.args[2]) = {3}
    /\ probe.out[1] # probe.out[2]

(***************************************************************************)
(* C13.  process_single_file never updates or deletes a persisted record:  *)
(* under every policy (interactive, skip_duplicates, overwrite_duplicates) *)
(* every row the table held when the run started is still in the table,    *)
(* and every row the saved spreadsheet held is still at its place with the *)
(* same values, at every point of the run and after it; the rows of the    *)
(* in-memory worksheet that came from the file are not rewritten either.   *)
(***************************************************************************)
KeepsRowsOf(sheet, before) ==
    /\ Len(sheet) >= Len(before)
    /\ \A i \in 1..Len(before) : sheet[i] = before[i]

FailureReasons ==
    {"not_found", "no_type", "no_questions", "excel", "declined"}

C14_ExitStatusSignalsFailure ==
    pc \in {"exit_0", "exit_1"}
    => (pc = "exit_1"
        <=> \/ \E i \in 1..Len(returns) : returns[i].why \in FailureReasons
            \/ (why = "db_error" /\ data = NoData))

(***************************************************************************)
(* C15.  The number of tags is no ground for rejection: a well-formed      *)
(* record that is no duplicate and whose identifier is new is accepted     *)
(* also when it has more than max_tags tags.  The row of every accepted    *)
(* record, in the worksheet and in the table, has 14 + max_tags columns;   *)
(* its tag column i holds the i-th tag of the record for i up to the       *)
(* number of tags supplied, and the empty string beyond.                   *)
(***************************************************************************)
FreshRecord(q) ==
    /\ WellFormedRecord(q)
    /\ Normalized(q.question) \notin existing_questions
    /\ generate_uuid(strip(q.question), data.type, data.year) \notin Ids(db)

TagColumnsOf(row, tags) ==
    /\ Len(row) = FixedColumns + max_tags
    /\ \A i \in 1..max_tags :
           row[FixedColumns + i] = IF i <= Len(tags) THEN tags[i] ELSE ""

C15_TagsTruncatedAndPadded ==
    [][RecordStep
         => LET q == data.questions[idx]
            IN  /\ FreshRecord(q) => added_count' = added_count + 1
                /\ added_count' = added_count + 1
                   => /\ TagColumnsOf(ws'[next_row - 1], q.tags)
                      /\ ws'[next_row - 1] \in db']_vars

\* A record with more than max_tags tags was accepted; its row holds the
\* first max_tags of them.
C15_Witness ==
    /\ LoopDone
    /\ Len(data.questions) = 1
    /\ Len(data.questions[1].tags) > max_tags
    /\ added_count = 1
    /\ ws[next_row - 2][FixedColumns + 1] = data.questions[1].tags[1]
    /\ ws[next_row - 2][FixedColumns + max_tags] =
           data.questions[1].tags[max_tags]

(***************************************************************************)
(* C16.  A record that passes the checks of the loop and whose identifier  *)
(* is already a primary key of the table: the insert fails without ending  *)
(* the run, the table is left as it was, the record is not counted as      *)
(* added but as skipped (once, when none of its options is empty), its     *)
(* text is not added to the duplicate index, and the loop goes on to the   *)
(* next record of the document.                                            *)
(***************************************************************************)
PassesChecks(q) ==
    /\ ~LacksKey(q)
    /\ (strip(q.question) # <<>> \/ q.image_url # "")
    /\ Normalized(q.question) \notin existing_questions

IdOf(q) == generate_uuid(strip(q.question), data.type, data.year)

C16_IdCollisionNonFatal ==
    [][(RecordStep
        /\ PassesChecks(data.questions[idx])
        /\ IdOf(data.questions[idx]) \in Ids(db))
          => /\ db' = db
             /\ added_count' = added_count
             /\ skipped_count' > skipped_count
             /\ ~HasEmptyOption(data.questions[idx])
                => skipped_count' = skipped_count + 1
             /\ existing_questions' = existing_questions
             /\ pc' \in {"loop", "prompt", "save"}
             /\ idx < Len(data.questions) => pc' = "loop"]_vars

\* The first record of a document had a new text and an identifier that
\* the table held already; the loop went on over the second record.
C16_Witness ==
    /\ LoopDone
    /\ Len(data.questions) = 2
    /\ ~LacksKey(data.questions[1])
    /\ Normalized(data.questions[1].question) \notin
           {Normalized(r[2]) : r \in db0 \cup Rows(excel0)}
    /\ IdOf(data.questions[1]) \in Ids(db0)
    /\ added_count = 0
    /\ skipped_count = 2
    /\ db = db0

(***************************************************************************)
(* C17.  The duplicate check comes first: a record whose normalized text   *)
(* is in the duplicate index is classified duplicate, whether or not it    *)
(* also lacks a key or has an empty option.  The iteration appends it to   *)
(* the duplicate list, counts it as skipped exactly once, and does nothing *)
(* else: no cell is written, no insert is made, next_row and the index are *)
(* as before.                                                              *)
(***************************************************************************)
C17_DuplicateCheckFirst ==
    [][(RecordStep
        /\ Normalized(data.questions[idx].question) \in existing_questions)
          => /\ duplicate_questions' =
                    Append(duplicate_questions,
                           <<idx, strip(data.questions[idx].question)>>)
             /\ skipped_count' = skipped_count + 1
             /\ NoWriteStep
             /\ next_row' = next_row
             /\ existing_questions' = existing_questions]_vars

\* A record that lacks a key and whose text is in the index was listed as
\* a duplicate.
C17_Witness ==
    /\ LoopDone
    /\ Len(data.questions) = 1
    /\ LacksKey(data.questions[1])
    /\ duplicate_questions = <<<<1, strip(data.questions[1].question)>>>>
    /\ skipped_count = 1
    /\ added_count = 0

(***************************************************************************)
(* C18.  Two records of one document with the same normalized text are     *)
(* never both persisted: among the rows a run has added to the table, and  *)
(* among the rows it has added to the worksheet and to the saved           *)
(* spreadsheet, no two have the same normalized text.  A record whose      *)
(* normalized text an accepted record of the same run has is classified    *)
(* duplicate and writes nothing.  The index grows only in an iteration     *)
(* whose insert succeeded, and then by the normalized text of its record.  *)
(***************************************************************************)
RowsAfter(sheet, before) == SubSeq(sheet, Len(before) + 1, Len(sheet))

C18_NoTwoOfOneText ==
    /\ UniqueTextsDb(db \ db0)
    /\ UniqueTexts(RowsAfter(excel, excel0))
    /\ (pc \in {"loop", "prompt", "save", "returned", "raised"}
        /\ data # NoData)
       => UniqueTexts(RowsAfter(ws, excel0))

C18_IntraDocumentDuplicates ==
    /\ []C18_NoTwoOfOneText
    /\ [][RecordStep
            => LET q == data.questions[idx]
               IN  /\ (\E r \in db \ db0 :
                          Normalized(r[2]) = Normalized(q.question))
                      => /\ NoWriteStep
                         /\ Len(duplicate_questions') =
                                Len(duplicate_questions) + 1
                   /\ existing_questions' # existing_questions
                      => /\ added_count' = added_count + 1
                         /\ \E r \in db' \ db :
                                Normalized(r[2]) = Normalized(q.question)
                         /\ existing_questions' =
                                existing_questions
                                    \cup {Normalized(q.question)}
                   /\ added_count' = added_count + 1
                      => Normalized(q.question) \in existing_questions']_vars

\* Of two records of one document with the same normalized text the first
\* was accepted and the second was listed as its duplicate.
C18_Witness ==
    /\ LoopDone
    /\ Len(data.questions) = 2
    /\ Normalized(data.questions[1].question) =
           Normalized(data.questions[2].question)
    /\ added_count = 1
    /\ duplicate_questions = <<<<2, strip(data.questions[2].question)>>>>
    /\ Cardinality(db \ db0) = 1

(***************************************************************************)
(* C19.  For every record that passes validation the cells of its row are  *)
(* written to the worksheet at next_row before the insert is attempted,    *)
(* and whatever the insert does: when the iteration ends with the insert   *)
(* having succeeded, with the insert having been refused, and when the     *)
(* insert raises and ends the run, the worksheet holds the row of the      *)
(* record at the row that was next_row, and no other row has changed.      *)
(***************************************************************************)
InsertAttempted ==
    /\ pc = "loop"
    /\ idx <= Len(data.questions)
    /\ PassesChecks(data.questions[idx])
    /\ ~HasEmptyOption(data.questions[idx])
    /\ (idx' = idx + 1 \/ pc' = "raised")

C19_CellsBeforeInsert ==
    [][InsertAttempted
         => LET q == data.questions[idx]
                row_data == RowData(q, strip(q.question), data.type,
                                    data.year)
            IN  /\ Len(ws') >= next_row - 1
                /\ ws'[next_row - 1] = row_data
                /\ \A i \in 1..Len(ws) :
                       i # next_row - 1 => ws'[i] = ws[i]
                /\ pc' = "raised" => db' = db
                /\ db' # db => db' = db \cup {row_data}]_vars

\* The insert of a record raised: its row is in the worksheet and not in
\* the table.
C19_Witness ==
    /\ pc = "raised"
    /\ data # NoData
    /\ Len(ws) = next_row - 1
    /\ ws[next_row - 1][2] = strip(data.questions[idx].question)
    /\ ws[next_row - 1] \notin db
    /\ db = db0

(***************************************************************************)
(* C20.  A malformed or duplicate record never aborts its document.  The   *)
(* iteration that skips a record goes on to the next record, and the loop  *)
(* is left only after the last record.  A well-formed record with a new    *)
(* text and a new identifier that comes after skipped records is written   *)
(* to the worksheet and inserted into the table like any other, and it is  *)
(* in the saved spreadsheet and in the table when the run has saved.       *)
(***************************************************************************)
C20_LoopRunsToTheEnd ==
    /\ pc = "loop" => idx <= Len(data.questions)
    /\ pc \in {"prompt", "save"} => idx = Len(data.questions) + 1
    /\ (pc = "returned" /\ why = "saved")
       => \A r \in db \ db0 : r \in Rows(excel)

C20_SkipsNeverAbort ==
    /\ []C20_LoopRunsToTheEnd
    /\ [][RecordStep
            => LET q == data.questions[idx]
                   row_data == RowData(q, strip(q.question), data.type,
                                       data.year)
               IN  /\ skipped_count' > skipped_count
                      => /\ pc' \in {"loop", "prompt", "save"}
                         /\ idx < Len(data.questions) => pc' = "loop"
                   /\ (skipped_count > 0 /\ FreshRecord(q))
                      => /\ ws' = WriteCells(ws, next_row, row_data)
                         /\ db' = db \cup {row_data}
                         /\ row_data \notin db
                         /\ added_count' = added_count + 1
                         /\ next_row' = next_row + 1]_vars

\* The first record of a document lacked a key and was skipped, the second
\* was accepted and saved into both stores.
C20_Witness ==
    /\ pc = "returned"
    /\ why = "saved"
    /\ Len(data.questions) = 2
    /\ LacksKey(data.questions[1])
    /\ WellFormedRecord(data.questions[2])
    /\ skipped_count = 1
    /\ added_count = 1
    /\ duplicate_questions = <<>>
    /\ \E r \in db \ db0 :
           r[2] = strip(data.questions[2].question) /\ r \in Rows(excel)

(***************************************************************************)
(* C21.  The operator is prompted exactly when the record loop has found   *)
(* a duplicate and neither skip_duplicates nor overwrite_duplicates is     *)
(* set; otherwise the run goes from the loop to the save of the            *)
(* spreadsheet and no answer is asked for.  At the prompt the run goes on  *)
(* to the save exactly when the answer, stripped and lower-cased, is y;    *)
(* on any other answer it returns False and saves nothing.                 *)
(***************************************************************************)
MustPrompt(dups) ==
    dups # <<>> /\ ~skip_duplicates /\ ~overwrite_duplicates

IsYes(typed) ==
    \/ typed = <<"y">>
    \/ typed = <<"Y">>
    \/ typed = <<" ", "Y">>

C21_PromptState ==
    /\ pc = "prompt"
       => (MustPrompt(duplicate_questions) /\ response = NoResponse)
    /\ (pc = "save" /\ response = NoResponse)
       => ~MustPrompt(duplicate_questions)
    /\ (pc = "save" /\ response # NoResponse)
       => (MustPrompt(duplicate_questions) /\ IsYes(response))
    /\ (pc = "returned" /\ why = "declined")
       => (MustPrompt(duplicate_questions) /\ ~IsYes(response)
           /\ ~result /\ excel = excel0)
    /\ (pc = "returned" /\ why \in {"saved", "save_error"})
       => (MustPrompt(duplicate_questions) <=> response # NoResponse)

C21_PromptExactlyOnDuplicates ==
    /\ []C21_PromptState
    /\ [][(RecordStep /\ idx = Len(data.questions))
            => pc' = IF MustPrompt(duplicate_questions')
                     THEN "prompt" ELSE "save"]_vars
    /\ [][pc = "prompt"
            => /\ response' \in Responses
               /\ pc' = IF IsYes(response') THEN "save" ELSE "returned"]_vars

\* The operator typed the word yes at the prompt and the run returned False.
C21_Witness ==
    /\ pc = "returned"
    /\ why = "declined"
    /\ response = <<"y", "e", "s">>
    /\ ~skip_duplicates
    /\ ~overwrite_duplicates
    /\ duplicate_questions # <<>>

(***************************************************************************)
(* C22.  A call whose document does not load (path not found, no type, no  *)
(* or empty question list) or whose spreadsheet file does not load returns *)
(* False straight from the call: no record is read, no counter moves, the  *)
(* worksheet is not touched, and the saved spreadsheet and the table are   *)
(* what they were before the call.                                         *)
(***************************************************************************)
LoadFailures == {"not_found", "no_type", "no_questions", "excel"}

NoRecordRead ==
    /\ idx = 1
    /\ added_count = 0
    /\ skipped_count = 0
    /\ duplicate_questions = <<>>
    /\ ws = <<>>
    /\ existing_questions = {}

C22_FailedLoadState ==
    (pc = "returned" /\ why \in LoadFailures)
    => (~result /\ NoRecordRead /\ excel = excel0 /\ db = db0)

C22_LoadFailureChangesNothing ==
    /\ []C22_FailedLoadState
    /\ [][(pc = "call" /\ pc' = "returned")
            => /\ why' \in LoadFailures
               /\ ~result'
               /\ excel' = excel
               /\ db' = db]_vars
    /\ [][(pc' = "returned" /\ why' \in LoadFailures) => pc = "call"]_vars

\* The workbook did not load in a run against stores that held rows.
C22_Witness ==
    /\ pc = "returned"
    /\ why = "excel"
    /\ ~result
    /\ excel # <<>>
    /\ db # {}
    /\ excel = excel0
    /\ db = db0

(***************************************************************************)
(* C23.  A process_single_file call on a document that loaded ends at a    *)
(* terminal state, a return of True or False, and only after the record    *)
(* loop has visited every record of the document once, in order: when the  *)
(* call is over, it is over by a return statement and the loop position is *)
(* past the last record.                                                   *)
(***************************************************************************)
C23_EndsByReturnAfterEveryRecord ==
    (pc \in {"returned", "raised"} /\ data # NoData)
    => (pc = "returned" /\ idx = Len(data.questions) + 1)

(***************************************************************************)
(* C24.  The write position of a run starts at the row after the last      *)
(* populated row of the spreadsheet (row 2 for a header-only sheet) and    *)
(* moves by exactly one row with each accepted record and with nothing     *)
(* else.  So the k-th record a run accepts is written at row               *)
(* (rows before the run) + 1 + k, counting the header: accepted records    *)
(* lie on consecutive rows in document order, past every row that existed  *)
(* before the run.                                                         *)
(***************************************************************************)
RunHasSheet ==
    pc \in {"loop", "prompt", "save", "returned", "raised"} /\ data # NoData

C24_WritePosition ==
    RunHasSheet
    => /\ next_row = (Len(excel0) + 1) + 1 + added_count
       /\ Len(ws) \in {next_row - 2, next_row - 1}
       /\ \A i \in (Len(excel0) + 1)..(next_row - 2) : ws[i] \in db \ db0

C24_ConsecutiveRows ==
    /\ []C24_WritePosition
    /\ [][RecordStep
            => /\ next_row' \in {next_row, next_row + 1}
               /\ next_row' = next_row + 1 <=> added_count' = added_count + 1
               /\ added_count' = added_count + 1
                  => /\ next_row - 1 > Len(excel0)
                     /\ ws'[next_row - 1][2] =
                            strip(data.questions[idx].question)
                     /\ \A i \in 1..(next_row - 2) : ws'[i] = ws[i]]_vars

\* A run against a spreadsheet that held rows skipped its first record and
\* accepted its second, which lies on the row after the old last row.
C24_Witness ==
    /\ LoopDone
    /\ excel0 # <<>>
    /\ Len(data.questions) = 2
    /\ added_count = 1
    /\ skipped_count = 1
    /\ Len(ws) = Len(excel0) + 1
    /\ ws[Len(excel0) + 1][2] = strip(data.questions[2].question)

(***************************************************************************)
(* C25.  The identifier is that of the plain concatenation of text, type   *)
(* and year.  A record that passes the checks of the loop, whose text      *)
(* differs from the text of a row of the table while the concatenation of  *)
(* its text, type and year equals that of the row, is not classified       *)
(* duplicate; its row is written to the worksheet under the identifier of  *)
(* the table's row, and its insert fails: the table is unchanged and the   *)
(* record is not counted as added.                                         *)
(***************************************************************************)
Concatenation(text, type_val, year) == text \o type_val \o year

ConcatenationTwins(q) ==
    {r \in db :
        /\ r[2] # strip(q.question)
        /\ Concatenation(r[2], r[13], r[14]) =
               Concatenation(strip(q.question), data.type, data.year)}

C25_ConcatenationCollision ==
    [][(RecordStep
        /\ PassesChecks(data.questions[idx])
        /\ ConcatenationTwins(data.questions[idx]) # {})
          => /\ duplicate_questions' = duplicate_questions
             /\ Len(ws') >= next_row - 1
             /\ ws'[next_row - 1][2] = strip(data.questions[idx].question)
             /\ \A r \in ConcatenationTwins(data.questions[idx]) :
                    ws'[next_row - 1][1] = r[1]
             /\ db' = db
             /\ added_count' = added_count
             /\ skipped_count' > skipped_count]_vars

\* The worksheet holds, past the accepted rows, the row of a record whose
\* identifier a row of the table with another text has.
C25_Witness ==
    /\ pc \in {"loop", "prompt", "save"}
    /\ Len(ws) = next_row - 1
    /\ duplicate_questions = <<>>
    /\ \E r \in db :
           /\ r[1] = ws[next_row - 1][1]
           /\ Normalized(r[2]) # Normalized(ws[next_row - 1][2])
           /\ r[13] # ws[next_row - 1][13]

(***************************************************************************)
(* C26.  Duplicate detection looks at the normalized question text alone:  *)
(* a record whose normalized text is that of a row of the table, or of a   *)
(* spreadsheet row with a non-empty question cell, is classified duplicate *)
(* and nothing of it is written, also when the type or the year of the     *)
(* document differs from the row's, so that its identifier would be new.   *)
(***************************************************************************)
SameTextOtherMetadata(q, rows) ==
    {r \in rows :
        /\ Normalized(r[2]) = Normalized(q.question)
        /\ (r[13] # data.type \/ r[14] # data.year)}

\* The rows the index is built from: every row of the table, and the
\* spreadsheet rows whose question cell is not empty.
IndexedRows == db0 \cup {r \in Rows(excel0) : r[2] # <<>>}

C26_TextAloneDecides ==
    [][(RecordStep
        /\ SameTextOtherMetadata(data.questions[idx], IndexedRows) # {})
          => /\ duplicate_questions' =
                    Append(duplicate_questions,
                           <<idx, strip(data.questions[idx].question)>>)
             /\ NoWriteStep
             /\ skipped_count' = skipped_count + 1]_vars

\* A well-formed record whose text a row of the table has under another
\* type, and whose identifier is in neither store, was listed as duplicate.
C26_Witness ==
    /\ LoopDone
    /\ Len(data.questions) = 1
    /\ WellFormedRecord(data.questions[1])
    /\ SameTextOtherMetadata(data.questions[1], db0) # {}
    /\ IdOf(data.questions[1]) \notin Ids(db \cup Rows(ws))
    /\ Len(duplicate_questions) = 1
    /\ added_count = 0

(***************************************************************************)
(* C27.  No two data rows of the saved spreadsheet carry the same          *)
(* identifier, whatever runs were made from a header-only spreadsheet and  *)
(* an empty table; nor do two rows of the table.                           *)
(***************************************************************************)
C27_SpreadsheetIdsDistinct ==
    /\ \A i, j \in 1..Len(excel) : i # j => excel[i][1] # excel[j][1]
    /\ \A r1, r2 \in db : r1 # r2 => r1[1] # r2[1]

(***************************************************************************)
(* C28.  A failed insert leaves the write position where it was, and a     *)
(* record accepted later in the same document is written at that position  *)
(* and replaces every cell of the failed record: the row then holds the    *)
(* accepted record's values in every column.                               *)
(***************************************************************************)
FailedRowAtWritePosition == pc = "loop" /\ next_row - 1 \in 1..Len(ws)

C28_AcceptedRowReplacesFailedRow ==
    [][(RecordStep /\ FailedRowAtWritePosition
        /\ added_count' = added_count + 1)
          => /\ next_row' = next_row + 1
             /\ ws'[next_row - 1] =
                    RowData(data.questions[idx],
                            strip(data.questions[idx].question),
                            data.type, data.year)]_vars

(***************************************************************************)
(* C29.  In a batch the index is built anew from both stores for every     *)
(* document: while a document is processed the index holds the text of     *)
(* every row of the table, and a record whose normalized text is that of a *)
(* row inserted by an earlier document is listed as duplicate and written  *)
(* nowhere, also when the earlier call ended in a declined prompt or a     *)
(* failed save, its inserts being committed by then.                       *)
(***************************************************************************)
NormalizedText(q) == lower(strip(q.question))

NormalizedTextsOf(rows) == {lower(strip(r[2])) : r \in rows}

C29_IndexCoversTable ==
    (pc = "loop" /\ mode = "batch")
        => NormalizedTextsOf(db) \subseteq existing_questions

C29_EarlierDocumentsAreIndexed ==
    /\ []C29_IndexCoversTable
    /\ [][(RecordStep /\ mode = "batch"
           /\ NormalizedText(data.questions[idx])
                  \in NormalizedTextsOf(db0))
             => /\ duplicate_questions' =
                       Append(duplicate_questions,
                              <<idx, strip(data.questions[idx].question)>>)
                /\ NoWriteStep]_vars

\* The first document's inserts were committed and its prompt declined, so
\* the spreadsheet was never saved; the second document's record has the
\* normalized text of a table row and is listed as duplicate.
C29_Witness ==
    /\ LoopDone
    /\ mode = "batch"
    /\ Len(returns) = 1
    /\ returns[1].why = "declined"
    /\ excel = <<>>
    /\ db # {}
    /\ db = db0
    /\ Len(data.questions) = 1
    /\ Len(duplicate_questions) = 1
    /\ \E r \in db : r[2] # strip(data.questions[1].question)

(***************************************************************************)
(* C30.  Records without question text share the empty normalized text:    *)
(* once the table holds the row of an accepted record that has an image    *)
(* and no text, every record with empty text met afterwards, in the same   *)
(* document or in a later run, is listed as duplicate and written nowhere, *)
(* whatever its image, options, type and year.                             *)
(***************************************************************************)
ImageOnlyRows(rows) == {r \in rows : r[2] = <<>> /\ r[3] \notin {"", NULL}}

C30_EmptyTextIsDuplicate ==
    [][(RecordStep
        /\ ImageOnlyRows(db) # {}
        /\ strip(data.questions[idx].question) = <<>>)
          => /\ duplicate_questions' =
                    Append(duplicate_questions, <<idx, <<>> >>)
             /\ NoWriteStep
             /\ skipped_count' = skipped_count + 1]_vars

\* A later run meets a record without text whose image and type are those
\* of no stored row: it is listed as duplicate and nothing is added.
C30_Witness ==
    /\ LoopDone
    /\ ImageOnlyRows(db0) # {}
    /\ Len(data.questions) = 1
    /\ strip(data.questions[1].question) = <<>>
    /\ \A r \in db0 : /\ r[3] # data.questions[1].image_url
                       /\ r[13] # data.type
    /\ duplicate_questions = << <<1, <<>> >> >>
    /\ added_count = 0
    /\ db = db0

=============================================================================
